---- MODULE Spec2Model ----
(***************************************************************************)
(* Model of the Banana codec of rust-twisted-banana (src/banana.rs) and of *)
(* its Perspective Broker profile (src/pb.rs).                             *)
(*                                                                         *)
(* Bytes are the integers 0..255, byte slices are sequences.  A Result is  *)
(* a record: [tag |-> "Ok", ...], [tag |-> "Err", err |-> e], or, for a    *)
(* Rust panic (unwrap of an Err, slice index out of range),                *)
(* [tag |-> "Panic", ...].  The `?` operator passes on every result whose  *)
(* tag is not "Ok".                                                        *)
(*                                                                         *)
(* TLC integers are 32 bits wide, so i32 values are themselves, and the    *)
(* one u32 value above i32::MAX that the code uses (ABSMIN32 = 1 << 31) is *)
(* kept as the pair [q |-> j >> 7, r |-> j % 128].                         *)
(***************************************************************************)
EXTENDS Integers, Sequences, FiniteSets, TLC

VARIABLES
    profile,   \* the Profile type parameter P of Element<P>
    bytes,     \* the byte buffer handed to the decoder / filled by encode
    fed,       \* number of tokens the caller has put into the buffer
    elt,       \* the Element value handed to encode
    op,        \* the last operation performed
    out        \* the Result of the last decode

vars == <<profile, bytes, fed, elt, op, out>>

---------------------------------------------------------------------------
(* i32 and the numeric constants of the code                               *)

I32_MAX == 2147483647

I32_MIN == -I32_MAX - 1

\* banana.rs:74  let premax = 1 << 24;
POS_PREMAX == 16777216

\* banana.rs:95  let premax = -1 << 24;
NEG_PREMAX == -16777216

\* banana.rs:6   const ABSMIN32: u32 = 1 << 31;  as [q, r] with q = 1 << 24
ABSMIN32 == [q |-> POS_PREMAX, r |-> 0]

\* `x as u32` for an i32 x >= 0
AsU32(x) == [q |-> x \div 128, r |-> x % 128]

\* delimiters (type bytes)
T_LIST == 128

T_INT == 129

T_STRING == 130

T_NEG == 131

T_FLOAT == 132

PB_DELIM == 135

TEST_DELIM == 255

\* `res << 7` on an i32: the bits shifted out are dropped, the rest is read
\* as two's complement.
Shl7(res) ==
    LET low == res % 33554432   \* the 25 bits that stay
    IN  IF low >= POS_PREMAX THEN (low - 33554432) * 128 ELSE low * 128

\* whether res * 128 is itself an i32, i.e. the shift lost nothing
Shl7Exact(res) == res >= NEG_PREMAX /\ res < POS_PREMAX

\* `x - b` on i32 for 0 <= b <= 127, wrapping as a release build does
SubWrap(x, b) ==
    IF x < I32_MIN + b THEN (((x - I32_MIN) - b) + I32_MAX) + 1 ELSE x - b

SubExact(x, b) == x >= I32_MIN + b

---------------------------------------------------------------------------
(* Results                                                                 *)

Ok(v) == [tag |-> "Ok", val |-> v]

OkRem(v, r) == [tag |-> "Ok", val |-> v, rem |-> r]

Err(e) == [tag |-> "Err", err |-> e]

Panic(why) == [tag |-> "Panic", why |-> why]

Empty == [kind |-> "Empty"]

NoType == [kind |-> "NoType"]

UnknownType(b) == [kind |-> "UnknownType", byte |-> b]

OverFlow(bs) == [kind |-> "OverFlow", bytes |-> bs]

TooShort(expected, actual) ==
    [kind |-> "TooShort", expected |-> expected, actual |-> actual]

\* Invalid(String): the format string and the values formatted into it
Invalid(msg, args) == [kind |-> "Invalid", msg |-> msg, args |-> args]

\* `&s[n..]`: panics when n > s.len()
SliceFrom(s, n) ==
    IF n > Len(s) THEN Panic("slice index") ELSE Ok(SubSeq(s, n + 1, Len(s)))

---------------------------------------------------------------------------
(* Element<P>                                                              *)

Integer(i) == [kind |-> "Integer", i |-> i]

String(s) == [kind |-> "String", s |-> s]

\* Float(f64): the value is kept as its 64-bit pattern, most significant
\* byte first
Float(bits) == [kind |-> "Float", bits |-> bits]

List(items) == [kind |-> "List", items |-> items]

Extension(p) == [kind |-> "Extension", ext |-> p]

---------------------------------------------------------------------------
(* Primitive codec                                                         *)

\* the split made at the first byte above 0x80
RECURSIVE splitn_first_gt(_, _)
splitn_first_gt(ser, i) ==
    IF i > Len(ser) THEN ser
    ELSE IF ser[i] > 128 THEN SubSeq(ser, 1, i - 1)
    ELSE splitn_first_gt(ser, i + 1)

\* ser.splitn(2, |b| *b >= 0x80).next(): the bytes before the first byte
\* with the high bit set, the whole slice when there is none
RECURSIVE splitn_first(_, _)
splitn_first(ser, i) ==
    IF i > Len(ser) THEN ser
    ELSE IF ser[i] >= 128 THEN SubSeq(ser, 1, i - 1)
    ELSE splitn_first(ser, i + 1)

length_type(ser) ==
    IF Len(ser) = 0 THEN Err(Empty)
    ELSE LET length_bytes == splitn_first(ser, 1)
             type_offset == Len(length_bytes)
         IN  IF type_offset = Len(ser) THEN Err(NoType)
             ELSE Ok([pre |-> length_bytes, delim |-> ser[type_offset + 1]])

\* dec_posint with the bound tested as res > premax
RECURSIVE posint_loop_gt(_, _, _, _)
posint_loop_gt(bs, i, res, exact) ==
    LET l == Len(bs)
    IN  IF i > l THEN [tag |-> "Ok", val |-> res, exact |-> exact]
        ELSE IF res > POS_PREMAX
             THEN [tag |-> "Err", err |-> OverFlow(bs), exact |-> exact]
        ELSE posint_loop_gt(bs, i + 1, Shl7(res) + bs[l - i + 1],
                            exact /\ Shl7Exact(res))

\* the loop of dec_posint from iteration i on; exact records whether every
\* accumulation so far stayed inside the i32 range
RECURSIVE posint_loop(_, _, _, _)
posint_loop(bs, i, res, exact) ==
    LET l == Len(bs)
    IN  IF i > l THEN [tag |-> "Ok", val |-> res, exact |-> exact]
        ELSE IF res >= POS_PREMAX
             THEN [tag |-> "Err", err |-> OverFlow(bs), exact |-> exact]
        ELSE posint_loop(bs, i + 1, Shl7(res) + bs[l - i + 1],
                         exact /\ Shl7Exact(res))

dec_posint(bs) ==
    LET r == posint_loop(bs, 1, 0, TRUE)
    IN  IF r.tag = "Ok" THEN Ok(r.val) ELSE Err(r.err)

\* dec_negint without the test of the digit that follows res == premax
RECURSIVE negint_loop_anydigit(_, _, _, _)
negint_loop_anydigit(bs, i, res, exact) ==
    LET l == Len(bs)
        b == bs[l - i + 1]
    IN  IF i > l THEN [tag |-> "Ok", val |-> res, exact |-> exact]
        ELSE IF res < NEG_PREMAX
             THEN [tag |-> "Err", err |-> OverFlow(bs), exact |-> exact]
        ELSE negint_loop_anydigit(bs, i + 1, SubWrap(Shl7(res), b),
                                  exact /\ Shl7Exact(res) /\ SubExact(Shl7(res), b))

RECURSIVE negint_loop(_, _, _, _)
negint_loop(bs, i, res, exact) ==
    LET l == Len(bs)
        b == bs[l - i + 1]
    IN  IF i > l THEN [tag |-> "Ok", val |-> res, exact |-> exact]
        ELSE IF res < NEG_PREMAX \/ (res = NEG_PREMAX /\ b # 0)
             THEN [tag |-> "Err", err |-> OverFlow(bs), exact |-> exact]
        ELSE negint_loop(bs, i + 1, SubWrap(Shl7(res), b),
                         exact /\ Shl7Exact(res) /\ SubExact(Shl7(res), b))

dec_negint(bs) ==
    LET r == negint_loop(bs, 1, 0, TRUE)
    IN  IF r.tag = "Ok" THEN Ok(r.val) ELSE Err(r.err)

\* dec_string reporting the whole length of the buffer in TooShort
dec_string_whole_len(length_bytes, full_msg) ==
    LET lr == dec_posint(length_bytes)
    IN  IF lr.tag # "Ok" THEN lr
        ELSE LET l == lr.val
                 start == Len(length_bytes) + 1
             IN  IF l > Len(full_msg) - start
                 THEN Err(TooShort(l, Len(full_msg)))
                 ELSE Ok(SubSeq(full_msg, start + 1, start + l))

\* dec_string taking every byte of the buffer after the delimiter
dec_string_greedy(length_bytes, full_msg) ==
    LET lr == dec_posint(length_bytes)
    IN  IF lr.tag # "Ok" THEN lr
        ELSE LET l == lr.val
                 start == Len(length_bytes) + 1
             IN  IF start > Len(full_msg) THEN Panic("usize underflow")
                 ELSE IF l > Len(full_msg) - start
                      THEN Err(TooShort(l, Len(full_msg) - start))
                 ELSE Ok(SubSeq(full_msg, start + 1, Len(full_msg)))

\* end > full_msg.len() is written l > full_msg.len() - start: start + l
\* fits a usize but not always a TLC integer
dec_string(length_bytes, full_msg) ==
    LET lr == dec_posint(length_bytes)
    IN  IF lr.tag # "Ok" THEN lr
        ELSE LET l == lr.val
                 start == Len(length_bytes) + 1
             IN  IF start > Len(full_msg) THEN Panic("usize underflow")
                 ELSE IF l > Len(full_msg) - start
                      THEN Err(TooShort(l, Len(full_msg) - start))
                 ELSE Ok(SubSeq(full_msg, start + 1, start + l))

Reverse(s) == [i \in 1..Len(s) |-> s[Len(s) + 1 - i]]

\* the array read with its first byte as the most significant one
u64_from_be_array(arr) == arr

\* transmute::<[u8; 8], u64> followed by u64::from_le: the array's first
\* byte is the least significant one
u64_from_le_array(arr) == Reverse(arr)

dec_float(length_bytes, full_msg) ==
    IF Len(length_bytes) # 0
    THEN Err(Invalid("Float values must not have a length preamble, but got {:?}",
                     length_bytes))
    ELSE IF Len(full_msg) < 9 THEN Err(TooShort(9, Len(full_msg)))
    ELSE Ok(u64_from_le_array(<<full_msg[9], full_msg[8], full_msg[7],
                                full_msg[6], full_msg[5], full_msg[4],
                                full_msg[3], full_msg[2]>>))

\* u64::to_be followed by transmute::<u64, [u8; 8]>: most significant first
enc_float(v, bits) == v \o <<T_FLOAT>> \o bits

---------------------------------------------------------------------------
(* Profiles                                                                *)

\* impl Profile for NoneProfile
NoneProfile_decode(delimiter, preamble, full_msg) ==
    Err(UnknownType(delimiter))

\* the opcode that PB::decode maps a preamble byte to; "" for `other`
PB_of_byte(b) ==
    CASE b = 1 -> "None"
      [] b = 2 -> "Class"
      [] b = 3 -> "DeReference"
      [] b = 4 -> "Reference"
      [] b = 5 -> "Dictionary"
      [] b = 6 -> "Function"
      [] b = 7 -> "Instance"
      [] b = 8 -> "List"
      [] b = 9 -> "Module"
      [] b = 10 -> "Persistent"
      [] b = 11 -> "Tuple"
      [] b = 12 -> "UnPersistable"
      [] b = 13 -> "Copy"
      [] b = 14 -> "Cache"
      [] b = 15 -> "Cached"
      [] b = 16 -> "Remote"
      [] b = 17 -> "Local"
      [] b = 18 -> "LCache"
      [] b = 19 -> "Version"
      [] b = 20 -> "Login"
      [] b = 21 -> "Password"
      [] b = 22 -> "Challenge"
      [] b = 23 -> "LoggedIn"
      [] b = 24 -> "NotLoggedIn"
      [] b = 25 -> "CacheMessage"
      [] b = 26 -> "Message"
      [] b = 27 -> "Answer"
      [] b = 28 -> "Error"
      [] b = 29 -> "DecRef"
      [] b = 30 -> "DeCache"
      [] b = 31 -> "UnCache"
      [] OTHER -> ""

\* PB::decode returning the whole of full_msg as the remainder
PB_decode_rem0(delimiter, preamble, full_msg) ==
    IF delimiter # PB_DELIM THEN Err(UnknownType(delimiter))
    ELSE IF Len(preamble) # 1
    THEN Err(Invalid("PB element type 0x87 must be prefixed by exactly one byte (got {})",
                     <<Len(preamble)>>))
    ELSE IF PB_of_byte(preamble[1]) = ""
    THEN Err(Invalid("Unknown PB short identifier 0x{:x}", <<preamble[1]>>))
    ELSE OkRem(PB_of_byte(preamble[1]), full_msg)

\* PB::decode without the test of the delimiter
PB_decode_any_delim(delimiter, preamble, full_msg) ==
    IF Len(preamble) # 1
    THEN Err(Invalid("PB element type 0x87 must be prefixed by exactly one byte (got {})",
                     <<Len(preamble)>>))
    ELSE IF PB_of_byte(preamble[1]) = ""
    THEN Err(Invalid("Unknown PB short identifier 0x{:x}", <<preamble[1]>>))
    ELSE LET rem == SliceFrom(full_msg, 2)
         IN  IF rem.tag # "Ok" THEN rem
             ELSE OkRem(PB_of_byte(preamble[1]), rem.val)

\* PB::decode returning the remainder &full_msg[1..]
PB_decode_rem1(delimiter, preamble, full_msg) ==
    IF delimiter # PB_DELIM THEN Err(UnknownType(delimiter))
    ELSE IF Len(preamble) # 1
    THEN Err(Invalid("PB element type 0x87 must be prefixed by exactly one byte (got {})",
                     <<Len(preamble)>>))
    ELSE IF PB_of_byte(preamble[1]) = ""
    THEN Err(Invalid("Unknown PB short identifier 0x{:x}", <<preamble[1]>>))
    ELSE LET rem == SliceFrom(full_msg, 1)
         IN  IF rem.tag # "Ok" THEN rem
             ELSE OkRem(PB_of_byte(preamble[1]), rem.val)

\* PB::decode taking the first byte of a preamble of any length
PB_decode_long_preamble(delimiter, preamble, full_msg) ==
    IF delimiter # PB_DELIM THEN Err(UnknownType(delimiter))
    ELSE IF Len(preamble) = 0
    THEN Err(Invalid("PB element type 0x87 must be prefixed by exactly one byte (got {})",
                     <<Len(preamble)>>))
    ELSE IF PB_of_byte(preamble[1]) = ""
    THEN Err(Invalid("Unknown PB short identifier 0x{:x}", <<preamble[1]>>))
    ELSE LET rem == SliceFrom(full_msg, 2)
         IN  IF rem.tag # "Ok" THEN rem
             ELSE OkRem(PB_of_byte(preamble[1]), rem.val)

PB_decode(delimiter, preamble, full_msg) ==
    IF delimiter # PB_DELIM THEN Err(UnknownType(delimiter))
    ELSE IF Len(preamble) # 1
    THEN Err(Invalid("PB element type 0x87 must be prefixed by exactly one byte (got {})",
                     <<Len(preamble)>>))
    ELSE IF PB_of_byte(preamble[1]) = ""
    THEN Err(Invalid("Unknown PB short identifier 0x{:x}", <<preamble[1]>>))
    ELSE LET rem == SliceFrom(full_msg, 2)
         IN  IF rem.tag # "Ok" THEN rem
             ELSE OkRem(PB_of_byte(preamble[1]), rem.val)

\* the byte PB::encode pushes for an opcode
PB_tag(p) ==
    CASE p = "None" -> 1
      [] p = "Class" -> 2
      [] p = "DeReference" -> 3
      [] p = "Reference" -> 4
      [] p = "Dictionary" -> 5
      [] p = "Function" -> 6
      [] p = "Instance" -> 7
      [] p = "List" -> 8
      [] p = "Module" -> 9
      [] p = "Persistent" -> 10
      [] p = "Tuple" -> 11
      [] p = "UnPersistable" -> 12
      [] p = "Copy" -> 11
      [] p = "Cache" -> 14
      [] p = "Cached" -> 15
      [] p = "Remote" -> 16
      [] p = "Local" -> 17
      [] p = "LCache" -> 18
      [] p = "Version" -> 19
      [] p = "Login" -> 20
      [] p = "Password" -> 21
      [] p = "Challenge" -> 22
      [] p = "LoggedIn" -> 23
      [] p = "NotLoggedIn" -> 24
      [] p = "CacheMessage" -> 25
      [] p = "Message" -> 26
      [] p = "Answer" -> 27
      [] p = "Error" -> 28
      [] p = "DecRef" -> 29
      [] p = "DeCache" -> 30
      [] p = "UnCache" -> 31

PB_encode(p, v) == v \o <<PB_tag(p), PB_DELIM>>

\* tests::TestProfile { contents: Option<u8> }: None is <<>>, Some(u) is <<u>>
TestProfile_decode(delimiter, preamble, full_msg) ==
    IF delimiter # TEST_DELIM THEN Err(UnknownType(delimiter))
    ELSE LET rem == IF 2 > Len(full_msg) THEN <<>>
                    ELSE SubSeq(full_msg, 3, Len(full_msg))
         IN  CASE Len(preamble) = 0 -> OkRem([contents |-> <<>>], rem)
               [] Len(preamble) = 1 -> OkRem([contents |-> <<preamble[1]>>], rem)
               [] OTHER -> Err(Invalid("Invalid length", <<>>))

TestProfile_encode(p, v) == v \o p.contents \o <<TEST_DELIM>>

\* P::decode, by the type parameter P
Profile_decode(P, delimiter, preamble, full_msg) ==
    CASE P = "PB" -> PB_decode(delimiter, preamble, full_msg)
      [] P = "TestProfile" -> TestProfile_decode(delimiter, preamble, full_msg)
      [] OTHER -> NoneProfile_decode(delimiter, preamble, full_msg)

\* P::encode; NoneProfile has no value, its encode pushes nothing
Profile_encode(P, p, v) ==
    CASE P = "PB" -> PB_encode(p, v)
      [] P = "TestProfile" -> TestProfile_encode(p, v)
      [] OTHER -> v

---------------------------------------------------------------------------
(* Decoder                                                                 *)

RECURSIVE from_bytes_rem(_, _)
RECURSIVE list_loop(_, _, _, _)

\* dec_list returning the children decoded so far when one fails
list_loop_partial(P, rem, n, resv) ==
    IF n = 0 THEN OkRem(List(resv), rem)
    ELSE LET item_rem == from_bytes_rem(P, rem)
         IN  IF item_rem.tag # "Ok" THEN OkRem(List(resv), rem)
             ELSE list_loop(P, item_rem.rem, n - 1, Append(resv, item_rem.val))

\* dec_list decoding every child from the same place
list_loop_same_rem(P, rem, n, resv) ==
    IF n = 0 THEN OkRem(List(resv), rem)
    ELSE LET item_rem == from_bytes_rem(P, rem)
         IN  IF item_rem.tag # "Ok" THEN item_rem
             ELSE list_loop(P, rem, n - 1, Append(resv, item_rem.val))

\* the for loop of dec_list: n children are still to be decoded from rem
list_loop(P, rem, n, resv) ==
    IF n = 0 THEN OkRem(List(resv), rem)
    ELSE LET item_rem == from_bytes_rem(P, rem)
         IN  IF item_rem.tag # "Ok" THEN item_rem
             ELSE list_loop(P, item_rem.rem, n - 1, Append(resv, item_rem.val))

\* dec_list without the test for a missing preamble
dec_list_no_length_test(P, length_bytes, full_msg) ==
    LET lr == dec_posint(length_bytes)
    IN  IF lr.tag # "Ok" THEN lr
        ELSE LET rem == SliceFrom(full_msg, Len(length_bytes) + 1)
             IN  IF rem.tag # "Ok" THEN rem
                 ELSE list_loop(P, rem.val, lr.val, <<>>)

dec_list(P, length_bytes, full_msg) ==
    IF Len(length_bytes) = 0 THEN Err(Invalid("List without a length", <<>>))
    ELSE LET lr == dec_posint(length_bytes)
         IN  IF lr.tag # "Ok" THEN lr
             ELSE LET rem == SliceFrom(full_msg, Len(length_bytes) + 1)
                  IN  IF rem.tag # "Ok" THEN rem
                      ELSE list_loop(P, rem.val, lr.val, <<>>)

\* the match on the delimiter, after the profile answered UnknownType
native_dispatch(P, delimiter, length_bytes, bs) ==
    CASE delimiter = T_INT ->
            LET r == dec_posint(length_bytes)
                rem == SliceFrom(bs, Len(length_bytes) + 1)
            IN  IF r.tag # "Ok" THEN r
                ELSE IF rem.tag # "Ok" THEN rem
                ELSE OkRem(Integer(r.val), rem.val)
      [] delimiter = T_NEG ->
            LET r == dec_negint(length_bytes)
                rem == SliceFrom(bs, Len(length_bytes) + 1)
            IN  IF r.tag # "Ok" THEN r
                ELSE IF rem.tag # "Ok" THEN rem
                ELSE OkRem(Integer(r.val), rem.val)
      [] delimiter = T_STRING ->
            LET st == dec_string(length_bytes, bs)
            IN  IF st.tag # "Ok" THEN st
                ELSE LET stl == Len(st.val)
                         rem == SliceFrom(bs, Len(length_bytes) + 1 + stl)
                     IN  IF rem.tag # "Ok" THEN rem
                         ELSE OkRem(String(st.val), rem.val)
      [] delimiter = T_LIST -> dec_list(P, length_bytes, bs)
      [] delimiter = T_FLOAT ->
            LET f == dec_float(length_bytes, bs)
                rem == SliceFrom(bs, 9)
            IN  IF f.tag # "Ok" THEN f
                ELSE IF rem.tag # "Ok" THEN rem
                ELSE OkRem(Float(f.val), rem.val)
      [] OTHER -> Err(UnknownType(delimiter))

\* from_bytes_rem trying the native types after any error of the profile
from_bytes_rem_any_err(P, bs) ==
    LET lt == length_type(bs)
    IN  IF lt.tag # "Ok" THEN Panic("unwrap")
        ELSE LET length_bytes == lt.val.pre
                 delimiter == lt.val.delim
                 hook == Profile_decode(P, delimiter, length_bytes, bs)
             IN  IF hook.tag = "Ok" THEN OkRem(Extension(hook.val), hook.rem)
                 ELSE IF hook.tag = "Err"
                      THEN native_dispatch(P, delimiter, length_bytes, bs)
                 ELSE hook

from_bytes_rem(P, bs) ==
    LET lt == length_type(bs)
    IN  IF lt.tag # "Ok" THEN Panic("unwrap")
        ELSE LET length_bytes == lt.val.pre
                 delimiter == lt.val.delim
                 hook == Profile_decode(P, delimiter, length_bytes, bs)
             IN  IF hook.tag = "Ok" THEN OkRem(Extension(hook.val), hook.rem)
                 ELSE IF hook.tag = "Err" /\ hook.err.kind = "UnknownType"
                      THEN native_dispatch(P, delimiter, length_bytes, bs)
                 ELSE hook

\* from_bytes refusing a buffer with bytes left after the element
from_bytes_strict(P, bs) ==
    LET r == from_bytes_rem(P, bs)
    IN  IF r.tag # "Ok" THEN r
        ELSE IF r.rem # <<>> THEN Err(Invalid("Trailing bytes", <<>>))
        ELSE Ok(r.val)

from_bytes(P, bs) ==
    LET r == from_bytes_rem(P, bs)
    IN  IF r.tag # "Ok" THEN r ELSE Ok(r.val)

---------------------------------------------------------------------------
(* Encoder                                                                 *)

\* the loop of enc_uint on a value below 1 << 31
RECURSIVE uint_loop(_, _)
uint_loop(v, j) ==
    IF j > 127 THEN uint_loop(Append(v, j % 128), j \div 128)
    ELSE Append(v, j)

\* enc_uint with the loop running while j > 128
enc_uint_gt128(v, i) ==
    IF i.q > 1 \/ (i.q = 1 /\ i.r > 0) THEN uint_loop(Append(v, i.r), i.q)
    ELSE Append(v, 128 * i.q + i.r)

\* enc_uint(v, i) for the u32 i = 128 * i.q + i.r
enc_uint(v, i) ==
    IF i.q > 0 THEN uint_loop(Append(v, i.r), i.q) ELSE Append(v, i.r)

\* enc_int with the sign tested as i > 0
enc_int_zero_neg(v, i) ==
    IF i > 0 THEN Append(enc_uint(v, AsU32(i)), T_INT)
    ELSE IF i = I32_MIN THEN Append(enc_uint(v, ABSMIN32), T_NEG)
    ELSE Append(enc_uint(v, AsU32(-i)), T_NEG)

enc_int(v, i) ==
    IF i >= 0 THEN Append(enc_uint(v, AsU32(i)), T_INT)
    ELSE IF i = I32_MIN THEN Append(enc_uint(v, ABSMIN32), T_NEG)
    ELSE Append(enc_uint(v, AsU32(-i)), T_NEG)

RECURSIVE encode_in(_, _, _)
RECURSIVE enc_items(_, _, _, _)

\* the for loop of enc_list from child k on
enc_items(P, v, l, k) ==
    IF k > Len(l) THEN v ELSE enc_items(P, encode_in(P, l[k], v), l, k + 1)

enc_list(P, v, l) ==
    enc_items(P, Append(enc_uint(v, AsU32(Len(l))), T_LIST), l, 1)

encode_in(P, e, v) ==
    CASE e.kind = "Integer" -> enc_int(v, e.i)
      [] e.kind = "List" -> enc_list(P, v, e.items)
      [] e.kind = "String" ->
            Append(enc_uint(v, AsU32(Len(e.s))), T_STRING) \o e.s
      [] e.kind = "Extension" -> Profile_encode(P, e.ext, v)
      [] e.kind = "Float" -> enc_float(v, e.bits)

encode(P, e) == encode_in(P, e, <<>>)

---------------------------------------------------------------------------
(* Equality of elements: #[derive(PartialEq)] on Element<P>, which for     *)
(* Float is the == of f64                                                  *)

\* exponent bits all ones and a mantissa that is not zero
IsNaN(bits) ==
    /\ bits[1] % 128 = 127
    /\ bits[2] >= 240
    /\ (bits[2] % 16 # 0 \/ \E i \in 3..8 : bits[i] # 0)

\* +0.0 or -0.0
IsZero(bits) == bits[1] % 128 = 0 /\ \A i \in 2..8 : bits[i] = 0

F64Eq(a, b) ==
    /\ ~IsNaN(a)
    /\ ~IsNaN(b)
    /\ (a = b \/ (IsZero(a) /\ IsZero(b)))

RECURSIVE ElemEq(_, _)
ElemEq(a, b) ==
    /\ a.kind = b.kind
    /\ CASE a.kind = "Float" -> F64Eq(a.bits, b.bits)
         [] a.kind = "List" ->
               /\ Len(a.items) = Len(b.items)
               /\ \A k \in 1..Len(a.items) : ElemEq(a.items[k], b.items[k])
         [] OTHER -> a = b

\* == on Result<Element<P>, DecodeError>
ResEq(r, s) ==
    /\ r.tag = s.tag
    /\ IF r.tag = "Ok" THEN ElemEq(r.val, s.val) ELSE r = s

\* == on Result<(Element<P>, &[u8]), DecodeError>
ResRemEq(r, s) ==
    /\ ResEq(r, s)
    /\ (r.tag = "Ok" => r.rem = s.rem)

---------------------------------------------------------------------------
(* Inputs                                                                  *)

\* tokens a caller puts into the buffer
MaxTokens == 4

\* digits of the integer preambles
MaxDigits == 6

\* nodes (elements, counting list children) of a value handed to encode
MaxNodes == 3

Profiles == {"NoneProfile", "PB", "TestProfile"}

\* 1.5, a quiet NaN, -0.0 as 64-bit patterns
F64_1_5 == <<63, 248, 0, 0, 0, 0, 0, 0>>

F64_NAN == <<127, 248, 0, 0, 0, 0, 0, 0>>

F64_NEG_ZERO == <<128, 0, 0, 0, 0, 0, 0, 0>>

\* the digits of 1 << 31, least significant first
BigPreamble == <<0, 0, 0, 0, 8>>

InputBytes == {0, 1, 2, T_LIST, T_INT, T_STRING, T_NEG, T_FLOAT, PB_DELIM, TEST_DELIM}

Tokens == {<<b>> : b \in InputBytes} \cup {F64_1_5, BigPreamble}

\* the tokens fed when the parts of the decoder are called one by one
ApiTokens == Tokens \ {<<0>>, <<T_NEG>>, BigPreamble}

IntDigits == {0, 1, 7, 8, 127}

RECURSIVE DigitSeqs(_)
DigitSeqs(n) ==
    IF n = 0 THEN {<<>>}
    ELSE DigitSeqs(n - 1)
         \cup {Append(p, d) : p \in {q \in DigitSeqs(n - 1) : Len(q) = n - 1},
                              d \in IntDigits}

PBOpcodes ==
    {"None", "Class", "DeReference", "Reference", "Dictionary", "Function",
     "Instance", "List", "Module", "Persistent", "Tuple", "UnPersistable",
     "Copy", "Cache", "Cached", "Remote", "Local", "LCache", "Version",
     "Login", "Password", "Challenge", "LoggedIn", "NotLoggedIn",
     "CacheMessage", "Message", "Answer", "Error", "DecRef", "DeCache",
     "UnCache"}

\* enum PB in the order of its declaration: the first variant is 0x01
PBVariants ==
    <<"None", "Class", "DeReference", "Reference", "Dictionary", "Function",
      "Instance", "List", "Module", "Persistent", "Tuple", "UnPersistable",
      "Copy", "Cache", "Cached", "Remote", "Local", "LCache", "Version",
      "Login", "Password", "Challenge", "LoggedIn", "NotLoggedIn",
      "CacheMessage", "Message", "Answer", "Error", "DecRef", "DeCache",
      "UnCache">>

\* bytes of the preamble handed to PB::decode
MaxPreamble == 2

\* every opcode byte, the bytes around them, and the largest digit
PreambleBytes == (0..33) \cup {127}

RECURSIVE Preambles(_)
Preambles(n) ==
    IF n = 0 THEN {<<>>}
    ELSE Preambles(n - 1)
         \cup {Append(p, b) : p \in {q \in Preambles(n - 1) : Len(q) = n - 1},
                              b \in PreambleBytes}

PBDelims == {T_LIST, T_INT, PB_DELIM, TEST_DELIM}

\* what follows the element in the buffer
PBTails == {<<>>, <<6, T_INT>>}

\* tokens received after an encoded element
MaxTail == 1

\* a digit, the native delimiters, a whole integer
TailTokens == {<<1>>, <<T_LIST>>, <<T_INT>>, <<T_STRING>>, <<T_FLOAT>>, <<2, T_INT>>}

SampleInts == {0, 1, -1, 128, 6674, I32_MAX, I32_MIN}

SampleStrings == {<<>>, <<98, 97, 110>>, <<128, 1>>}

SampleFloats == {F64_1_5, F64_NAN, F64_NEG_ZERO}

Leaves(P) ==
    {Integer(i) : i \in SampleInts}
    \cup {String(s) : s \in SampleStrings}
    \cup {Float(f) : f \in SampleFloats}
    \cup (IF P = "PB" THEN {Extension(p) : p \in PBOpcodes} ELSE {})

\* the number of elements in a value, counting the children of lists
RECURSIVE NodesFrom(_, _)
Nodes(e) == IF e.kind = "List" THEN 1 + NodesFrom(e.items, 1) ELSE 1

NodesFrom(items, k) ==
    IF k > Len(items) THEN 0 ELSE Nodes(items[k]) + NodesFrom(items, k + 1)

\* the magnitude of digits given least significant first is at most i32::MAX:
\* 128^4 = 2^28, so the fifth digit is at most 7 and the later ones are 0
FitsI32(digits) ==
    /\ \A k \in 6..Len(digits) : digits[k] = 0
    /\ (Len(digits) >= 5 => digits[5] <= 7)

\* the magnitude is exactly 2^31
IsAbsMin(digits) ==
    /\ Len(digits) >= 5
    /\ digits[5] = 8
    /\ \A k \in 1..Len(digits) : k # 5 => digits[k] = 0

Pow128(k) == CASE k = 0 -> 1 [] k = 1 -> 128 [] k = 2 -> 16384
               [] k = 3 -> 2097152 [] OTHER -> 268435456

\* the magnitude of digits that fit an i32: sum of digits[k] * 128^(k-1)
RECURSIVE MagnitudeFrom(_, _)
MagnitudeFrom(digits, k) ==
    IF k > Len(digits) \/ k > 5 THEN 0
    ELSE digits[k] * Pow128(k - 1) + MagnitudeFrom(digits, k + 1)

Magnitude(digits) == MagnitudeFrom(digits, 1)

NoElt == [kind |-> "none"]

NotRun == [tag |-> "NotRun"]

---------------------------------------------------------------------------
(* The caller's operations                                                 *)

\* the caller appends received bytes to its buffer
Feed(t) ==
    /\ fed < MaxTokens
    /\ bytes' = bytes \o t
    /\ fed' = fed + 1
    /\ op' = "feed"
    /\ out' = NotRun
    /\ UNCHANGED <<profile, elt>>

\* Element::<P>::from_bytes_rem(&bytes)
DecodeRem ==
    /\ op' = "from_bytes_rem"
    /\ out' = from_bytes_rem(profile, bytes)
    /\ UNCHANGED <<profile, bytes, fed, elt>>

\* Element::<P>::from_bytes(&bytes)
Decode ==
    /\ op' = "from_bytes"
    /\ out' = from_bytes(profile, bytes)
    /\ UNCHANGED <<profile, bytes, fed, elt>>

\* bytes = elt.encode()
Encode ==
    /\ elt # NoElt
    /\ bytes' = encode(profile, elt)
    /\ op' = "encode"
    /\ out' = NotRun
    /\ UNCHANGED <<profile, fed, elt>>

\* the caller wraps the value in a list: Element::List(vec![elt])
Wrap ==
    /\ op = "new"
    /\ elt # NoElt
    /\ Nodes(elt) < MaxNodes
    /\ elt' = List(<<elt>>)
    /\ UNCHANGED <<profile, bytes, fed, op, out>>

\* the caller pushes a further child on the list
Push(l) ==
    /\ op = "new"
    /\ elt # NoElt
    /\ elt.kind = "List"
    /\ Nodes(elt) < MaxNodes
    /\ elt' = List(Append(elt.items, l))
    /\ UNCHANGED <<profile, bytes, fed, op, out>>

\* Element::<P>::length_type(&bytes)
LengthType ==
    /\ op' = "length_type"
    /\ out' = length_type(bytes)
    /\ UNCHANGED <<profile, bytes, fed, elt>>

\* P::decode(delimiter, length_bytes, bytes), with the arguments that
\* from_bytes_rem hands to the hook
ProfileDecode ==
    /\ length_type(bytes).tag = "Ok"
    /\ op' = "P::decode"
    /\ out' = LET lt == length_type(bytes).val
              IN  Profile_decode(profile, lt.delim, lt.pre, bytes)
    /\ UNCHANGED <<profile, bytes, fed, elt>>

\* the caller appends received bytes after the encoded element
FeedTail(t) ==
    /\ op \in {"encode", "feed"}
    /\ fed < MaxTail
    /\ bytes' = bytes \o t
    /\ fed' = fed + 1
    /\ op' = "feed"
    /\ out' = NotRun
    /\ UNCHANGED <<profile, elt>>

\* Decoding a received buffer
Init ==
    /\ profile \in Profiles
    /\ bytes = <<>>
    /\ fed = 0
    /\ elt = NoElt
    /\ op = "new"
    /\ out = NotRun

Next ==
    \/ \E t \in Tokens : Feed(t)
    \/ DecodeRem

Spec == Init /\ [][Next]_vars

\* Decoding one integer element: a preamble of digits and 0x81 or 0x83
InitInt ==
    /\ profile = "NoneProfile"
    /\ \E p \in DigitSeqs(MaxDigits), d \in {T_INT, T_NEG} : bytes = Append(p, d)
    /\ fed = 1
    /\ elt = NoElt
    /\ op = "new"
    /\ out = NotRun

NextInt == DecodeRem

SpecInt == InitInt /\ [][NextInt]_vars

\* Encoding a value and decoding the bytes again
InitEnc ==
    /\ profile \in {"NoneProfile", "PB"}
    /\ elt \in Leaves(profile) \cup {List(<<>>)}
    /\ bytes = <<>>
    /\ fed = 0
    /\ op = "new"
    /\ out = NotRun

NextEnc ==
    \/ Wrap
    \/ \E l \in Leaves(profile) \cup {List(<<>>)} : Push(l)
    \/ Encode
    \/ Decode

SpecEnc == InitEnc /\ [][NextEnc]_vars

\* PB::decode on one element and what follows it
InitPB ==
    /\ profile = "PB"
    /\ \E p \in Preambles(MaxPreamble), d \in PBDelims, t \in PBTails :
           bytes = Append(p, d) \o t
    /\ fed = 1
    /\ elt = NoElt
    /\ op = "new"
    /\ out = NotRun

NextPB == ProfileDecode

SpecPB == InitPB /\ [][NextPB]_vars

\* Encoding one integer: the values with at most MaxDigits digits taken
\* from IntDigits, of both signs, and the samples
InitEncInt ==
    /\ profile = "NoneProfile"
    /\ \/ \E p \in {q \in DigitSeqs(MaxDigits) : FitsI32(q)} :
              elt \in {Integer(Magnitude(p)), Integer(-Magnitude(p))}
       \/ elt \in {Integer(i) : i \in SampleInts}
    /\ bytes = <<>>
    /\ fed = 0
    /\ op = "new"
    /\ out = NotRun

NextEncInt ==
    \/ Encode
    \/ Decode

SpecEncInt == InitEncInt /\ [][NextEncInt]_vars

\* Decoding an encoded value followed by further bytes
InitTail ==
    /\ profile = "NoneProfile"
    /\ elt \in Leaves(profile) \cup {List(<<>>)}
    /\ bytes = <<>>
    /\ fed = 0
    /\ op = "new"
    /\ out = NotRun

NextTail ==
    \/ Wrap
    \/ \E l \in Leaves(profile) \cup {List(<<>>)} : Push(l)
    \/ Encode
    \/ \E t \in TailTokens : FeedTail(t)
    \/ DecodeRem

SpecTail == InitTail /\ [][NextTail]_vars

\* The parts of the decoder called one by one on a received buffer
NextApi ==
    \/ \E t \in ApiTokens : Feed(t)
    \/ LengthType
    \/ ProfileDecode
    \/ Decode

SpecApi == Init /\ [][NextApi]_vars

---------------------------------------------------------------------------
(* Properties                                                              *)

\* whether the buffer holds a delimiter, and where the first one is
HasDelim(bs) == \E i \in 1..Len(bs) : bs[i] >= 128

FirstDelim(bs) ==
    CHOOSE i \in 1..Len(bs) : bs[i] >= 128 /\ \A j \in 1..(i - 1) : bs[j] < 128

Preamble(bs) == SubSeq(bs, 1, FirstDelim(bs) - 1)

AfterDelim(bs) == SubSeq(bs, FirstDelim(bs) + 1, Len(bs))

RECURSIVE HasNaN(_)
HasNaN(e) ==
    CASE e.kind = "Float" -> IsNaN(e.bits)
      [] e.kind = "List" -> \E k \in 1..Len(e.items) : HasNaN(e.items[k])
      [] OTHER -> FALSE

\* the element was encoded and the bytes decoded again with from_bytes
RoundTripDone == op = "from_bytes" /\ elt # NoElt /\ bytes = encode(profile, elt)

\* C1: under the PB profile every opcode, and every list of opcodes and
\* native elements, decodes from its encoding to a value equal to itself.
C1_PBRoundTrip ==
    (RoundTripDone /\ profile = "PB" /\ ~HasNaN(elt)) => ResEq(out, Ok(elt))

\* C2: decoding never panics: every from_bytes_rem ends in Ok or in Err.
C2_DecodeNeverPanics ==
    op = "from_bytes_rem" => out.tag \in {"Ok", "Err"}

\* C3 as stated: under the trivial profile every value built from Integer,
\* String, Float and List decodes from its encoding to a value == to itself.
C3_RoundTripEq ==
    (RoundTripDone /\ profile = "NoneProfile") => ResEq(out, Ok(elt))

\* C3 as amended: the decoded value is the encoded one, every Float with
\* the same 64-bit pattern; it is == to it unless it holds a NaN.
C3_RoundTripBits ==
    (RoundTripDone /\ profile = "NoneProfile") =>
        /\ out = Ok(elt)
        /\ (~HasNaN(elt) => ResEq(out, Ok(elt)))

C3_Witness ==
    /\ RoundTripDone
    /\ profile = "NoneProfile"
    /\ elt = List(<<Integer(I32_MIN), String(<<128, 1>>)>>)
    /\ out = Ok(elt)

\* one integer element was decoded: digits followed by the delimiter d
IntDecoded(d) ==
    /\ op = "from_bytes_rem"
    /\ Len(bytes) >= 1
    /\ bytes[Len(bytes)] = d
    /\ \A k \in 1..(Len(bytes) - 1) : bytes[k] < 128

IntDigitsOf(bs) == SubSeq(bs, 1, Len(bs) - 1)

\* C4: digits followed by 0x81 decode to Integer(m) exactly when the
\* magnitude m is at most i32::MAX, and otherwise fail with OverFlow of the
\* whole preamble; no accumulation leaves the i32 range.
C4_PositiveBoundary ==
    IntDecoded(T_INT) =>
        LET pre == IntDigitsOf(bytes)
        IN  /\ out = IF FitsI32(pre) THEN OkRem(Integer(Magnitude(pre)), <<>>)
                     ELSE Err(OverFlow(pre))
            /\ posint_loop(pre, 1, 0, TRUE).exact

C4_Witness ==
    /\ IntDecoded(T_INT)
    /\ bytes = Append(BigPreamble, T_INT)
    /\ out = Err(OverFlow(BigPreamble))

\* C5: digits followed by 0x83 decode to Integer(-m) exactly when the
\* magnitude m is at most 2^31, and otherwise fail with OverFlow of the
\* whole preamble; no accumulation leaves the i32 range.
C5_NegativeBoundary ==
    IntDecoded(T_NEG) =>
        LET pre == IntDigitsOf(bytes)
        IN  /\ out = CASE FitsI32(pre) -> OkRem(Integer(-Magnitude(pre)), <<>>)
                       [] IsAbsMin(pre) -> OkRem(Integer(I32_MIN), <<>>)
                       [] OTHER -> Err(OverFlow(pre))
            /\ negint_loop(pre, 1, 0, TRUE).exact

C5_Witness ==
    /\ IntDecoded(T_NEG)
    /\ bytes = <<0, 0, 0, 0, 0, 8, T_NEG>>
    /\ out = Err(OverFlow(<<0, 0, 0, 0, 0, 8>>))

\* an element was decoded from a buffer whose first delimiter is d
Decoded(d) ==
    /\ op = "from_bytes_rem"
    /\ HasDelim(bytes)
    /\ bytes[FirstDelim(bytes)] = d

IsSuffix(r, b) ==
    Len(r) <= Len(b) /\ r = SubSeq(b, Len(b) - Len(r) + 1, Len(b))

\* C6: a successful from_bytes_rem under the trivial or the PB profile
\* returns a suffix of its input, and the bytes before that suffix decode
\* alone to the same value with nothing left.
C6_RemainderIsSuffix ==
    (op = "from_bytes_rem" /\ profile \in {"NoneProfile", "PB"} /\ out.tag = "Ok") =>
        /\ IsSuffix(out.rem, bytes)
        /\ from_bytes_rem(profile, SubSeq(bytes, 1, Len(bytes) - Len(out.rem)))
              = OkRem(out.val, <<>>)

C6_Witness ==
    /\ op = "from_bytes_rem"
    /\ profile = "PB"
    /\ bytes = <<2, PB_DELIM, 1, T_INT>>
    /\ out = OkRem(Extension("Class"), <<1, T_INT>>)

NativeDelims == {T_LIST, T_INT, T_STRING, T_NEG, T_FLOAT}

RECURSIVE ChildStart(_, _, _)
ChildStart(P, bs, k) ==
    IF k = 1 THEN AfterDelim(bs)
    ELSE from_bytes_rem(P, ChildStart(P, bs, k - 1)).rem

\* C8: a list whose preamble decodes to n is the n elements decoded one
\* after another, each from the remainder of the one before, in that order,
\* and its remainder is what follows the n-th; it fails only if a child does.
C8_ListCountsElements ==
    (Decoded(T_LIST) /\ Preamble(bytes) # <<>> /\ dec_posint(Preamble(bytes)).tag = "Ok") =>
        LET n == dec_posint(Preamble(bytes)).val
        IN  IF out.tag = "Ok"
            THEN /\ out.val.kind = "List"
                 /\ Len(out.val.items) = n
                 /\ \A k \in 1..n :
                       from_bytes_rem(profile, ChildStart(profile, bytes, k))
                          = OkRem(out.val.items[k], ChildStart(profile, bytes, k + 1))
                 /\ out.rem = ChildStart(profile, bytes, n + 1)
            ELSE \E k \in 1..n :
                    from_bytes_rem(profile, ChildStart(profile, bytes, k)).tag # "Ok"

C8_Witness ==
    /\ Decoded(T_LIST)
    /\ bytes = <<2, T_LIST, T_INT, T_STRING>>
    /\ out = OkRem(List(<<Integer(0), String(<<>>)>>), <<>>)

\* C9: a list delimiter with no preamble fails with Invalid("List without a
\* length") whatever follows it; a preamble of zero digits only gives the
\* empty list and leaves what follows the delimiter.
C9_ListShape ==
    Decoded(T_LIST) =>
        /\ Preamble(bytes) = <<>> =>
              out = Err(Invalid("List without a length", <<>>))
        /\ (Preamble(bytes) # <<>> /\ \A k \in 1..Len(Preamble(bytes)) : bytes[k] = 0) =>
              out = OkRem(List(<<>>), AfterDelim(bytes))

C9_Witness ==
    /\ Decoded(T_LIST)
    /\ bytes = <<T_LIST, 1, T_INT>>
    /\ out = Err(Invalid("List without a length", <<>>))

\* C10: a string whose preamble decodes to n is the n bytes after the
\* delimiter, with the remainder right after them, when that many are
\* there; with only k < n there it fails with TooShort(n, k); a preamble
\* above i32::MAX fails with OverFlow.
C10_StringTruncation ==
    Decoded(T_STRING) =>
        LET pre == Preamble(bytes)
            rest == AfterDelim(bytes)
            n == Magnitude(pre)
        IN  out = CASE ~FitsI32(pre) -> Err(OverFlow(pre))
                    [] n <= Len(rest) ->
                          OkRem(String(SubSeq(rest, 1, n)), SubSeq(rest, n + 1, Len(rest)))
                    [] OTHER -> Err(TooShort(n, Len(rest)))

C10_Witness ==
    /\ Decoded(T_STRING)
    /\ bytes = <<2, T_STRING, 1>>
    /\ out = Err(TooShort(2, 1))

\* a list with a count was decoded: first delimiter 0x80 after a preamble
\* that dec_posint accepts
ListDecoded ==
    /\ Decoded(T_LIST)
    /\ Preamble(bytes) # <<>>
    /\ dec_posint(Preamble(bytes)).tag = "Ok"

ChildResult(k) == from_bytes_rem(profile, ChildStart(profile, bytes, k))

ChildCount == dec_posint(Preamble(bytes)).val

SomeChildFails == \E k \in 1..ChildCount : ChildResult(k).tag # "Ok"

\* the first child whose decode does not return Ok
FirstFailing ==
    CHOOSE k \in 1..ChildCount :
        /\ ChildResult(k).tag # "Ok"
        /\ \A j \in 1..(k - 1) : ChildResult(j).tag = "Ok"

\* C11: when a child of a list is the first whose decode fails with an
\* error, the decode of the list returns exactly that error, and no list.
C11_FailFast ==
    (ListDecoded /\ SomeChildFails) =>
        (ChildResult(FirstFailing).tag = "Err" => out = ChildResult(FirstFailing))

C11_Witness ==
    /\ ListDecoded
    /\ bytes = <<2, T_LIST, T_INT, T_LIST>>
    /\ out = Err(Invalid("List without a length", <<>>))

\* C12: PB::decode returns UnknownType(delimiter) for a delimiter other than
\* 0x87; for 0x87 it fails with Invalid unless the preamble is one byte, and
\* when that byte is outside 0x01..0x1f, reporting the byte; otherwise it
\* returns the opcode numbered by the byte and the buffer from its third byte.
C12_PBDecode ==
    (op = "P::decode" /\ profile = "PB") =>
        LET d == bytes[FirstDelim(bytes)]
            p == Preamble(bytes)
        IN  CASE d # PB_DELIM -> out = Err(UnknownType(d))
              [] Len(p) # 1 -> /\ out.tag = "Err"
                               /\ out.err.kind = "Invalid"
              [] p[1] \notin 1..31 -> /\ out.tag = "Err"
                                     /\ out.err.kind = "Invalid"
                                     /\ out.err.args = <<p[1]>>
              [] OTHER -> out = OkRem(PBVariants[p[1]], SubSeq(bytes, 3, Len(bytes)))

C12_Witness ==
    /\ op = "P::decode"
    /\ profile = "PB"
    /\ bytes = <<19, PB_DELIM, 6, T_INT>>
    /\ out = OkRem("Version", <<6, T_INT>>)

\* C13: a float delimiter after a preamble fails with Invalid; in a buffer
\* of fewer than 9 bytes it fails with TooShort(9, len); otherwise the
\* Float's bits are the 8 bytes after the delimiter, most significant
\* first, the remainder starts at byte 9, and encoding that Float gives
\* 0x84 and the same 8 bytes.
C13_FloatLayout ==
    Decoded(T_FLOAT) =>
        CASE Preamble(bytes) # <<>> ->
                /\ out.tag = "Err"
                /\ out.err.kind = "Invalid"
          [] Len(bytes) < 9 -> out = Err(TooShort(9, Len(bytes)))
          [] OTHER ->
                /\ out = OkRem(Float(SubSeq(bytes, 2, 9)), SubSeq(bytes, 10, Len(bytes)))
                /\ encode(profile, out.val) = SubSeq(bytes, 1, 9)

C13_Witness ==
    /\ Decoded(T_FLOAT)
    /\ bytes = <<T_FLOAT, 1>> \o F64_1_5 \o <<T_INT>>
    /\ out = OkRem(Float(<<1, 63, 248, 0, 0, 0, 0, 0>>), <<0, T_INT>>)

\* C14: encode(Integer(i)) is the base-128 digits of |i|, least significant
\* first, each below 0x80, the last one 0 only when it is the only one,
\* then 0x81 when i >= 0 and 0x83 when i < 0; for i32::MIN the digits are
\* those of 2^31.
C14_IntegerEncoding ==
    (op = "encode" /\ elt.kind = "Integer") =>
        LET n == Len(bytes)
            digits == SubSeq(bytes, 1, n - 1)
            i == elt.i
        IN  /\ n >= 2
            /\ \A k \in 1..(n - 1) : digits[k] < 128
            /\ (n > 2 => digits[n - 1] # 0)
            /\ (i = 0 => digits = <<0>>)
            /\ bytes[n] = (IF i >= 0 THEN T_INT ELSE T_NEG)
            /\ IF i = I32_MIN THEN digits = BigPreamble
               ELSE /\ FitsI32(digits)
                    /\ Magnitude(digits) = (IF i >= 0 THEN i ELSE -i)

C14_Witness ==
    /\ op = "encode"
    /\ elt = Integer(I32_MIN)
    /\ bytes = <<0, 0, 0, 0, 8, T_NEG>>

\* C15: length_type fails with Empty on the empty slice, with NoType on a
\* non-empty slice without a byte >= 0x80, and otherwise returns the first
\* byte >= 0x80 with exactly the bytes before it, all of them < 0x80.
C15_LengthType ==
    op = "length_type" =>
        out = CASE bytes = <<>> -> Err(Empty)
                [] ~HasDelim(bytes) -> Err(NoType)
                [] OTHER -> Ok([pre |-> Preamble(bytes),
                                delim |-> bytes[FirstDelim(bytes)]])

C15_Witness ==
    /\ op = "length_type"
    /\ bytes = <<1, 2, T_STRING, T_INT>>
    /\ out = Ok([pre |-> <<1, 2>>, delim |-> T_STRING])

\* the prefixes of bs, bs included
Prefixes(bs) == {SubSeq(bs, 1, n) : n \in 0..Len(bs)}

\* C16: from_bytes returns Ok(v) exactly when from_bytes_rem returns
\* Ok((v, r)) for some r, and fails exactly as from_bytes_rem fails; so a
\* buffer that starts with an input decoding to an element decodes to that
\* same element, whatever follows.
C16_FromBytesDiscardsRem ==
    op = "from_bytes" =>
        LET r == from_bytes_rem(profile, bytes)
        IN  /\ out = IF r.tag = "Ok" THEN Ok(r.val) ELSE r
            /\ \A c \in Prefixes(bytes) :
                   from_bytes_rem(profile, c).tag = "Ok"
                       => out = Ok(from_bytes_rem(profile, c).val)

C16_Witness ==
    /\ op = "from_bytes"
    /\ bytes = <<1, T_STRING, 2, T_INT>>
    /\ out = Ok(String(<<2>>))
    /\ from_bytes_rem(profile, bytes).rem = <<T_INT>>

\* C17: when the decode of a profile recognises the delimiter and succeeds,
\* the remainder it returns starts at the byte following the delimiter.
C17_ProfileRemainder ==
    (op = "P::decode" /\ out.tag = "Ok") => out.rem = AfterDelim(bytes)

\* the buffer is the encoding of elt followed by further bytes, and
\* from_bytes_rem ran on it
TailDecoded ==
    /\ op = "from_bytes_rem"
    /\ elt # NoElt
    /\ Len(encode(profile, elt)) <= Len(bytes)
    /\ SubSeq(bytes, 1, Len(encode(profile, elt))) = encode(profile, elt)

TrailingBytes == SubSeq(bytes, Len(encode(profile, elt)) + 1, Len(bytes))

\* C18 as stated: under the trivial profile, from_bytes_rem of an encoding
\* followed by any bytes t == Ok((v, t)).
C18_SelfDelimitingEq ==
    (TailDecoded /\ profile = "NoneProfile") => ResRemEq(out, OkRem(elt, TrailingBytes))

\* C18: under the trivial profile, from_bytes_rem of an encoding followed by
\* any bytes t returns the value with the same structure, integers, bytes
\* and float bit patterns, and exactly t as the remainder; it == Ok((v, t))
\* when v holds no NaN.
C18_SelfDelimitingBits ==
    (TailDecoded /\ profile = "NoneProfile") =>
        /\ out = OkRem(elt, TrailingBytes)
        /\ (~HasNaN(elt) => ResRemEq(out, OkRem(elt, TrailingBytes)))

C18_Witness ==
    /\ TailDecoded
    /\ profile = "NoneProfile"
    /\ elt = List(<<String(<<128, 1>>), Integer(I32_MIN)>>)
    /\ TrailingBytes = <<2, T_INT>>
    /\ out = OkRem(elt, <<2, T_INT>>)

\* C19: a successful decode under the trivial or the PB profile consumes
\* at least the preamble and the delimiter, so its remainder is strictly
\* shorter than its input, and it decoded no more elements than it
\* consumed bytes.
C19_Progress ==
    (op = "from_bytes_rem" /\ profile \in {"NoneProfile", "PB"} /\ out.tag = "Ok") =>
        /\ Len(out.rem) < Len(bytes)
        /\ Len(out.rem) <= Len(bytes) - (Len(Preamble(bytes)) + 1)
        /\ Nodes(out.val) <= Len(bytes) - Len(out.rem)

C19_Witness ==
    /\ op = "from_bytes_rem"
    /\ profile = "PB"
    /\ bytes = <<1, T_LIST, 1, PB_DELIM>>
    /\ out = OkRem(List(<<Extension("None")>>), <<>>)

\* C20: what the trivial profile decodes, the PB profile decodes to the
\* same element and remainder; the two differ only where the trivial
\* profile fails with UnknownType(0x87).
C20_PBConservative ==
    (op = "from_bytes_rem" /\ profile = "PB") =>
        LET plain == from_bytes_rem("NoneProfile", bytes)
        IN  /\ plain.tag = "Ok" => out = plain
            /\ out # plain => plain = Err(UnknownType(PB_DELIM))

C20_Witness ==
    /\ op = "from_bytes_rem"
    /\ profile = "PB"
    /\ bytes = <<2, T_LIST, PB_DELIM, T_INT>>
    /\ out.tag = "Err"
    /\ out.err.kind = "Invalid"
    /\ from_bytes_rem("NoneProfile", bytes) = Err(UnknownType(PB_DELIM))

====
